---- MODULE Spec2Model ----
(***************************************************************************)
(* Baggage-handling simulation (sim/airport.py, sim/solver.py).            *)
(*                                                                         *)
(* Times are minutes after an arbitrary epoch, flight numbers, gate        *)
(* numbers and handler names are strings.  A Python Optional value is a    *)
(* sequence: None is <<>> and a present value v is <<v>>.  A Python dict   *)
(* is a function whose DOMAIN is its key set.  An exception ends the run   *)
(* in pc = "error" with its name in error.                                 *)
(*                                                                         *)
(* The variables delivered, late, taken, last and fleet are history: the   *)
(* bags popped by on-time deliveries, the (handler, flight) pairs found    *)
(* late, the (handler, origin, destination, bags) pickups, the state       *)
(* before the latest stop, and the handlers as constructed.                *)
(*                                                                         *)
(* Spec runs the simulation with fleets of one or two handlers,            *)
(* SpecContention with fleets of one or three handlers, and SpecAirport    *)
(* builds the Airport alone from drawn gate lists.                         *)
(***************************************************************************)
EXTENDS Integers, Sequences, FiniteSets, TLC

\* ---- bounds of the model ----
MaxTick == 1        \* actual times are 0, 15, ..., 15 * MaxTick minutes
MaxRouteLen == 3    \* number of stops of one route
MaxCoord == 4       \* gate coordinates are 0..MaxCoord when gate lists are drawn

\* ---- Airport.gates and Airport.distance_matrix ----
VARIABLES gates, distance_matrix

\* ---- Optional values and dicts ----
None == << >>
Some(v) == << v >>
IsNone(o) == o = << >>
Val(o) == o[1]

EmptyDict == [k \in {} |-> 0]
DictSet(d, key, v) == [k \in (DOMAIN d) \cup {key} |-> IF k = key THEN v ELSE d[k]]
DictPop(d, key) == [k \in (DOMAIN d) \ {key} |-> d[k]]

RECURSIVE SumOver(_, _)
SumOver(d, keys) ==
    IF keys = {} THEN 0
    ELSE LET k == CHOOSE x \in keys : TRUE IN d[k] + SumOver(d, keys \ {k})
SumValues(d) == SumOver(d, DOMAIN d)

SeqElems(s) == {s[i] : i \in 1..Len(s)}

\* ---- Point, Gate, Airport ----
RECURSIVE IsqrtFrom(_, _)
IsqrtFrom(n, r) == IF (r + 1) * (r + 1) > n THEN r ELSE IsqrtFrom(n, r + 1)
Isqrt(n) == IsqrtFrom(n, 0)

\* math.dist of two points, rounded down to a whole unit (the gate layout of
\* the runs has integral distances)
PointDistance(p, q) == Isqrt((p.x - q.x) * (p.x - q.x) + (p.y - q.y) * (p.y - q.y))

Gates == << [number |-> "1", x |-> 0, y |-> 10], [number |-> "2", x |-> 0, y |-> 0] >>

GateDistance(g1, g2) == PointDistance(g1, g2)

\* a matrix that stores each distance once, above the diagonal
upper_triangle_matrix ==
    [i \in 1..Len(gates) |-> [j \in 1..Len(gates) |->
        IF i <= j THEN GateDistance(gates[i], gates[j]) ELSE 0]]

\* Airport.compute_distance_matrix: the double loop over self.gates
compute_distance_matrix ==
    [i \in 1..Len(gates) |-> [j \in 1..Len(gates) |-> GateDistance(gates[i], gates[j])]]

get_gate_idx(gate_number) ==
    IF \E i \in 1..Len(gates) : gates[i].number = gate_number
    THEN Some(CHOOSE i \in 1..Len(gates) :
                 /\ gates[i].number = gate_number
                 /\ \A j \in 1..(i - 1) : gates[j].number # gate_number)
    ELSE None

get_distance(gate1, gate2) == distance_matrix[Val(get_gate_idx(gate1))][Val(get_gate_idx(gate2))]

\* ---- Handler defaults ----
Speed == 60         \* distance units per hour
UnloadTime == 5     \* minutes

HandlerNames == << "0", "1", "2", "3" >>

\* a conversion that takes the quotient in hours for a number of minutes
TravelAsHours(distance_leg, speed) == distance_leg \div speed

\* dt.timedelta(hours=distance_leg / handler.speed), in minutes
TravelMinutes(distance_leg, speed) == (distance_leg * 60) \div speed

\* ---- Flight, Schedule ----
FlightNumbers == << "LX123", "SU123", "AF789" >>
FlightGates == << "1", "2", "1" >>
\* the number of bags an outbound obligation carries for each destination
FlightBags == << 1, 2, 3 >>
BagsFor(d) == FlightBags[CHOOSE i \in 1..Len(FlightNumbers) : FlightNumbers[i] = d]
FlightSet == SeqElems(FlightNumbers)

ActualTimes == {15 * k : k \in 0..MaxTick}

\* the flights that may carry outbound obligations; the others are pure
\* connection targets (baggages None)
Origins == {"LX123", "AF789"}

\* the outbound obligations a flight can be constructed with
BaggageChoices(number) ==
    {None} \cup
    {Some([d \in S |-> BagsFor(d)]) :
         S \in IF number \in Origins THEN (SUBSET (FlightSet \ {number})) \ {{}} ELSE {}}

\* Schedule.__getitem__: the first flight with that number, or None
ScheduleGet(flights, flight_number) ==
    IF \E i \in 1..Len(flights) : flights[i].number = flight_number
    THEN Some(flights[CHOOSE i \in 1..Len(flights) :
                 /\ flights[i].number = flight_number
                 /\ \A j \in 1..(i - 1) : flights[j].number # flight_number])
    ELSE None

\* an insertion that puts a flight before the flights of equal key
InsertBeforeEqual(sorted, f, which) ==
    LET n == Len(sorted)
        p == CHOOSE q \in 0..n :
                 /\ \A j \in 1..q : sorted[j][which] < f[which]
                 /\ (q < n => sorted[q + 1][which] >= f[which])
    IN SubSeq(sorted, 1, p) \o << f >> \o SubSeq(sorted, p + 1, n)

\* sorted(flights, key=attrgetter(which)): stable insertion of each flight
\* after the last element whose key is not greater
InsertByKey(sorted, f, which) ==
    LET n == Len(sorted)
        p == CHOOSE q \in 0..n :
                 /\ \A j \in 1..q : sorted[j][which] <= f[which]
                 /\ (q < n => sorted[q + 1][which] > f[which])
    IN SubSeq(sorted, 1, p) \o << f >> \o SubSeq(sorted, p + 1, n)

RECURSIVE SortPrefix(_, _, _)
SortPrefix(flights, n, which) ==
    IF n = 0 THEN << >>
    ELSE InsertByKey(SortPrefix(flights, n - 1, which), flights[n], which)

sort_by_time(flights, which) == SortPrefix(flights, Len(flights), which)
sort_by_actual(flights) == sort_by_time(flights, "actual")

\* ---- Handler ----
\* Handler.n_bags: sum(self.baggages.values()); baggages must be a dict
n_bags(handler) == SumValues(Val(handler.baggages))

\* take with the bags added in both branches
take_twice(baggages, flight_number, bags) ==
    LET b == IF IsNone(baggages) THEN EmptyDict ELSE Val(baggages)
    IN IF flight_number \in DOMAIN b
       THEN Some(DictSet(b, flight_number, b[flight_number] + bags + bags))
       ELSE Some(DictSet(b, flight_number, bags + bags))

\* Handler.take: the handler's baggages after taking bags for flight_number
take(baggages, flight_number, bags) ==
    LET b == IF IsNone(baggages) THEN EmptyDict ELSE Val(baggages)
    IN IF flight_number \in DOMAIN b
       THEN Some(DictSet(b, flight_number, b[flight_number] + bags))
       ELSE Some(DictSet(b, flight_number, bags))

\* ---- BaggageMatrix ----
RECURSIVE FillFrom(_, _)
FillFrom(flights, n) ==
    IF n = 0 THEN EmptyDict
    ELSE LET m == FillFrom(flights, n - 1)
             f == flights[n]
         IN IF IsNone(f.baggages) \/ DOMAIN Val(f.baggages) = {} THEN m
            ELSE LET old == IF f.number \in DOMAIN m THEN m[f.number] ELSE EmptyDict
                     new == [d \in (DOMAIN old) \cup (DOMAIN Val(f.baggages)) |->
                                IF d \in DOMAIN Val(f.baggages) THEN Val(f.baggages)[d] ELSE old[d]]
                 IN DictSet(m, f.number, new)

fill_matrix(flights) == FillFrom(flights, Len(flights))

\* BaggageMatrix.__len__: the number of baggages in the matrix
RECURSIVE LenOver(_, _)
LenOver(matrix, rows) ==
    IF rows = {} THEN 0
    ELSE LET r == CHOOSE x \in rows : TRUE
         IN SumValues(matrix[r]) + LenOver(matrix, rows \ {r})
MatrixLen(matrix) == LenOver(matrix, DOMAIN matrix)

\* self.matrix[flight_number] on the defaultdict: a missing row is created empty
MatrixTouch(matrix, flight_number) ==
    IF flight_number \in DOMAIN matrix THEN matrix
    ELSE DictSet(matrix, flight_number, EmptyDict)

\* BaggageMatrix.__getitem__: a copy of the row of flight_number
MatrixGet(matrix, flight_number) == MatrixTouch(matrix, flight_number)[flight_number]

\* remove_entry popping the key it is given as flight_to, which is no row
remove_entry_wrong_key(matrix, flight_from, flight_to) == matrix

\* BaggageMatrix.remove_entry: self.matrix.pop(flight_from, flight_to);
\* the second argument of dict.pop is the default returned for a missing key
remove_entry(matrix, flight_from, flight_to) == DictPop(matrix, flight_from)

\* ---- AirportSim.unload_plane ----
\* the result also tells which (destination, bags) the handler took and how
\* many calls of remove_entry found no row of the flight in the matrix
RECURSIVE UnloadLoop(_, _, _, _, _, _)
UnloadLoop(matrix, baggages, route, flight, snapshot, todo) ==
    IF todo = {} THEN [matrix |-> matrix, baggages |-> baggages, taken |-> {}, missing |-> 0]
    ELSE LET flight_number == CHOOSE x \in todo : TRUE
             bags == snapshot[flight_number]
         IN IF flight_number \notin SeqElems(route)
            THEN UnloadLoop(matrix, baggages, route, flight, snapshot, todo \ {flight_number})
            ELSE LET rest == UnloadLoop(remove_entry(matrix, flight, bags),
                                        take(baggages, flight_number, bags),
                                        route, flight, snapshot, todo \ {flight_number})
                 IN [rest EXCEPT !.taken = @ \cup {<< flight_number, bags >>},
                                 !.missing = @ + (IF flight \in DOMAIN matrix THEN 0 ELSE 1)]

unload_plane(matrix, baggages, route, flight) ==
    LET snapshot == MatrixGet(matrix, flight)
    IN UnloadLoop(MatrixTouch(matrix, flight), baggages, route, flight, snapshot, DOMAIN snapshot)

\* ---- one iteration of the inner loop of AirportSim.run_routes ----
\* the comparison with <= in place of <
BeforeOrAt(time, actual) == time <= actual

\* the comparison of lines 252 and 255
Before(time, actual) == time < actual

\* a clock that is set to the flight's actual time at every stop
ArrivalFromActual(time, prev_flight, cur_flight, speed) ==
    IF IsNone(prev_flight) THEN cur_flight.actual
    ELSE cur_flight.actual
           + TravelMinutes(get_distance(Val(prev_flight).gate_number, cur_flight.gate_number), speed)

\* the clock on arrival at cur_flight
ArrivalTime(time, prev_flight, cur_flight, speed) ==
    LET t0 == IF IsNone(time) THEN cur_flight.actual ELSE Val(time)
    IN IF IsNone(prev_flight) THEN t0
       ELSE t0 + TravelMinutes(get_distance(Val(prev_flight).gate_number, cur_flight.gate_number), speed)

\* a stop that also delivers the bags held for a flight with outbound
\* obligations, when the handler reaches it before its actual time
RunStopDelivering(flights, matrix, handler, cur, time, prev_flight) ==
    LET found == ScheduleGet(flights, cur)
        same == [matrix |-> matrix, baggages |-> handler.baggages, time |-> time,
                 prev_flight |-> prev_flight, error |-> None, delivered |-> 0,
                 taken |-> {}, missing |-> 0]
    IN IF IsNone(found) THEN [same EXCEPT !.error = Some("AttributeError")]
       ELSE LET cur_flight == Val(found)
                arrival == ArrivalTime(time, prev_flight, cur_flight, handler.speed)
                at == [same EXCEPT !.time = Some(arrival)]
                early == Before(arrival, cur_flight.actual)
                holds == ~IsNone(handler.baggages) /\ cur \in DOMAIN Val(handler.baggages)
            IN IF IsNone(cur_flight.baggages)
               THEN IF early
                    THEN IF IsNone(handler.baggages)
                         THEN [at EXCEPT !.error = Some("AttributeError")]
                         ELSE IF ~holds
                         THEN [at EXCEPT !.error = Some("KeyError")]
                         ELSE [at EXCEPT !.baggages = Some(DictPop(Val(handler.baggages), cur)),
                                         !.delivered = Val(handler.baggages)[cur],
                                         !.prev_flight = Some(cur_flight)]
                    ELSE [at EXCEPT !.prev_flight = Some(cur_flight)]
               ELSE LET start == IF early THEN cur_flight.actual ELSE arrival
                        kept == IF early /\ holds
                                THEN Some(DictPop(Val(handler.baggages), cur))
                                ELSE handler.baggages
                        u == unload_plane(matrix, kept, Val(handler.route), cur)
                    IN [matrix |-> u.matrix, baggages |-> u.baggages,
                        time |-> Some(start + handler.unload_time),
                        prev_flight |-> Some(cur_flight), error |-> None,
                        delivered |-> IF early /\ holds THEN Val(handler.baggages)[cur] ELSE 0,
                        taken |-> u.taken, missing |-> u.missing]

\* the state after the stop at cur: error is None or the exception raised,
\* delivered the number of bags popped from the handler's baggages
RunStop(flights, matrix, handler, cur, time, prev_flight) ==
    LET found == ScheduleGet(flights, cur)
        same == [matrix |-> matrix, baggages |-> handler.baggages, time |-> time,
                 prev_flight |-> prev_flight, error |-> None, delivered |-> 0,
                 taken |-> {}, missing |-> 0]
    IN IF IsNone(found) THEN [same EXCEPT !.error = Some("AttributeError")]
       ELSE LET cur_flight == Val(found)
                arrival == ArrivalTime(time, prev_flight, cur_flight, handler.speed)
                at == [same EXCEPT !.time = Some(arrival)]
            IN IF IsNone(cur_flight.baggages)
               THEN IF Before(arrival, cur_flight.actual)
                    THEN IF IsNone(handler.baggages)
                         THEN [at EXCEPT !.error = Some("AttributeError")]
                         ELSE IF cur \notin DOMAIN Val(handler.baggages)
                         THEN [at EXCEPT !.error = Some("KeyError")]
                         ELSE [at EXCEPT !.baggages = Some(DictPop(Val(handler.baggages), cur)),
                                         !.delivered = Val(handler.baggages)[cur],
                                         !.prev_flight = Some(cur_flight)]
                    ELSE [at EXCEPT !.prev_flight = Some(cur_flight)]
               ELSE LET start == IF Before(arrival, cur_flight.actual) THEN cur_flight.actual ELSE arrival
                        u == unload_plane(matrix, handler.baggages, Val(handler.route), cur)
                    IN [matrix |-> u.matrix, baggages |-> u.baggages,
                        time |-> Some(start + handler.unload_time),
                        prev_flight |-> Some(cur_flight), error |-> None, delivered |-> 0,
                        taken |-> u.taken, missing |-> u.missing]

\* ---- AirportSim.run_routes as a function of the fleet order ----
\* the inner loop from position pos of the handler's route
RECURSIVE RunRoute(_, _, _, _, _, _)
RunRoute(flights, matrix, handler, p, time, prev_flight) ==
    IF p > Len(Val(handler.route))
    THEN [matrix |-> matrix, baggages |-> handler.baggages, error |-> None]
    ELSE LET r == RunStop(flights, matrix, handler, Val(handler.route)[p], time, prev_flight)
         IN IF ~IsNone(r.error)
            THEN [matrix |-> r.matrix, baggages |-> r.baggages, error |-> r.error]
            ELSE RunRoute(flights, r.matrix, [handler EXCEPT !.baggages = r.baggages],
                          p + 1, r.time, r.prev_flight)

\* the outer loop over the handlers hs[order[k]], hs[order[k + 1]], ...
RECURSIVE run_routes(_, _, _, _, _)
run_routes(flights, matrix, hs, order, k) ==
    IF k > Len(order) THEN [matrix |-> matrix, handlers |-> hs, error |-> None]
    ELSE LET handler == hs[order[k]]
         IN IF IsNone(handler.route)
            THEN [matrix |-> matrix, handlers |-> hs, error |-> Some("TypeError")]
            ELSE LET r == RunRoute(flights, matrix, handler, 1, None, None)
                     hs2 == [hs EXCEPT ![order[k]].baggages = r.baggages]
                 IN IF ~IsNone(r.error)
                    THEN [matrix |-> r.matrix, handlers |-> hs2, error |-> r.error]
                    ELSE run_routes(flights, r.matrix, hs2, order, k + 1)

\* history: the stop found the handler holding bags for cur, a flight without
\* outbound obligations, at or after the flight's actual time
LateWithBags(flights, handler, cur, r) ==
    /\ ~IsNone(ScheduleGet(flights, cur))
    /\ IsNone(Val(ScheduleGet(flights, cur)).baggages)
    /\ ~IsNone(handler.baggages)
    /\ cur \in DOMAIN Val(handler.baggages)
    /\ ~IsNone(r.time)
    /\ Val(r.time) >= Val(ScheduleGet(flights, cur)).actual

\* ---- SequentialSolver.solve ----
\* result.error is None or the exception raised, result.routes the dict returned
solve(hs, flights) ==
    LET n == Len(hs)
        sorted == sort_by_actual(flights)
        numbers == [i \in 1..Len(sorted) |-> sorted[i].number]
    IN IF n = 0 THEN [error |-> Some("IndexError"), routes |-> EmptyDict]
       ELSE LET popped == hs[n]
                rest == SubSeq(hs, 1, n - 1)
                routes == DictSet(EmptyDict, popped.name, Some(numbers))
            IN IF rest # << >>
               \* routes[handler] = None: the key is a Handler, a dataclass
               \* with eq and without frozen, which is unhashable
               THEN [error |-> Some("TypeError"), routes |-> routes]
               ELSE [error |-> None, routes |-> routes]

\* routes.get(handler.name)
RoutesGet(routes, name) == IF name \in DOMAIN routes THEN routes[name] ELSE None

\* ---- AirportSim.compute_missing_bags ----
RECURSIVE HeldFrom(_, _)
HeldFrom(hs, n) == IF n = 0 THEN 0 ELSE HeldFrom(hs, n - 1) + n_bags(hs[n])

compute_missing_bags(matrix, hs, initial) ==
    LET bags == MatrixLen(matrix)
    IN IF \E i \in 1..Len(hs) : IsNone(hs[i].baggages)
       THEN [error |-> Some("AttributeError"), num |-> bags, den |-> initial]
       ELSE IF initial = 0
       THEN [error |-> Some("ZeroDivisionError"), num |-> bags + HeldFrom(hs, Len(hs)), den |-> initial]
       ELSE [error |-> None, num |-> bags + HeldFrom(hs, Len(hs)), den |-> initial]

\* ---- the inputs of a run ----
Schedules ==
    {[i \in 1..Len(FlightNumbers) |->
         [number |-> FlightNumbers[i], gate_number |-> FlightGates[i],
          scheduled |-> 0, actual |-> a[i], baggages |-> b[i]]] :
       a \in [1..Len(FlightNumbers) -> ActualTimes],
       b \in {x \in [1..Len(FlightNumbers) -> UNION {BaggageChoices(FlightNumbers[j]) : j \in 1..Len(FlightNumbers)}] :
                \A j \in 1..Len(FlightNumbers) : x[j] \in BaggageChoices(FlightNumbers[j])}}

\* AirportSim._get_handlers: n fresh handlers named "0", "1", ... (baggages
\* None), or the caller's list of handlers, here built with baggages={}
Fleet(n, baggages) ==
    [i \in 1..n |-> [name |-> HandlerNames[i], speed |-> Speed, unload_time |-> UnloadTime,
                     baggages |-> baggages, route |-> None]]
FleetSizes == {1, 2}
Fleets == {Fleet(n, b) : n \in FleetSizes, b \in {None, Some(EmptyDict)}}

RECURSIVE SeqsUpTo(_, _)
SeqsUpTo(S, n) ==
    IF n = 0 THEN {<< >>}
    ELSE LET shorter == SeqsUpTo(S, n - 1)
         IN shorter \cup {Append(r, x) : r \in {q \in shorter : Len(q) = n - 1}, x \in S}

\* a route of the dict given to update_routes: None (idle) or a list of
\* flight numbers, each flight at most once
RouteChoices ==
    {None} \cup {Some(r) : r \in {q \in SeqsUpTo(FlightSet, MaxRouteLen) :
                                    \A i, j \in 1..Len(q) : i # j => q[i] # q[j]}}

VARIABLES schedule, handlers, matrix, initial_baggages, routes, pc, hidx, pos,
          time, prev_flight, error, result, delivered, late, taken, last, fleet

vars == << schedule, handlers, matrix, initial_baggages, routes, pc, hidx, pos,
           time, prev_flight, error, result, delivered, late, taken, last, fleet,
           gates, distance_matrix >>

\* AirportSim.__init__ and BaggageMatrix.__init__
Init ==
    /\ schedule \in Schedules
    /\ handlers \in Fleets
    /\ matrix = fill_matrix(schedule)
    /\ initial_baggages = MatrixLen(fill_matrix(schedule))
    /\ routes = None
    /\ pc = "constructed"
    /\ hidx = 1
    /\ pos = 1
    /\ time = None
    /\ prev_flight = None
    /\ error = None
    /\ result = None
    /\ delivered = 0
    /\ late = {}
    /\ taken = {}
    /\ last = None
    /\ fleet = handlers
    /\ gates = Gates
    /\ distance_matrix = compute_distance_matrix

\* routes = solver.solve(airport_sim)
Solve ==
    /\ pc = "constructed"
    /\ LET r == solve(handlers, schedule)
       IN IF IsNone(r.error)
          THEN /\ routes' = Some(r.routes)
               /\ pc' = "solved"
               /\ error' = None
          ELSE /\ routes' = None
               /\ pc' = "error"
               /\ error' = r.error
    /\ last' = None
    /\ UNCHANGED << schedule, handlers, matrix, initial_baggages, hidx, pos, time,
                    prev_flight, result, delivered, late, taken, fleet,
                    gates, distance_matrix >>

\* AirportSim.update_routes, with the solver's dict or with a dict of the caller,
\* which may lack the names of some handlers
InstallRoutes(rs) ==
    /\ handlers' = [i \in 1..Len(handlers) |->
                       [handlers[i] EXCEPT !.route = RoutesGet(rs, handlers[i].name)]]
    /\ routes' = Some(rs)
    /\ pc' = "run"
    /\ hidx' = 1
    /\ last' = None
    /\ UNCHANGED << schedule, matrix, initial_baggages, pos, time, prev_flight, error,
                    result, delivered, late, taken, fleet,
                    gates, distance_matrix >>

update_routes ==
    \/ /\ pc = "solved"
       /\ InstallRoutes(Val(routes))
    \/ /\ pc = "constructed"
       /\ \E keys \in SUBSET {handlers[i].name : i \in 1..Len(handlers)} :
              \E rs \in [keys -> RouteChoices] : InstallRoutes(rs)

\* AirportSim.run_routes: the head of the outer loop for handler hidx
StartHandler ==
    /\ pc = "run"
    /\ hidx <= Len(handlers)
    /\ LET handler == handlers[hidx]
       IN IF IsNone(handler.route)
          \* for cur in None
          THEN /\ pc' = "error"
               /\ error' = Some("TypeError")
               /\ UNCHANGED << hidx, pos >>
          ELSE IF Val(handler.route) = << >>
          THEN /\ hidx' = hidx + 1
               /\ UNCHANGED << pc, error, pos >>
          ELSE /\ pc' = "stop"
               /\ pos' = 1
               /\ UNCHANGED << hidx, error >>
    /\ time' = None
    /\ prev_flight' = None
    /\ last' = None
    /\ UNCHANGED << schedule, handlers, matrix, initial_baggages, routes, result,
                    delivered, late, taken, fleet,
                    gates, distance_matrix >>

\* AirportSim.run_routes: the stop of handler hidx at position pos of its route
Stop ==
    /\ pc = "stop"
    /\ LET handler == handlers[hidx]
           cur == Val(handler.route)[pos]
           r == RunStop(schedule, matrix, handler, cur, time, prev_flight)
       IN /\ matrix' = r.matrix
          /\ handlers' = [handlers EXCEPT ![hidx].baggages = r.baggages]
          /\ time' = r.time
          /\ prev_flight' = r.prev_flight
          /\ delivered' = delivered + r.delivered
          /\ late' = IF LateWithBags(schedule, handler, cur, r) THEN late \cup {<< hidx, cur >>} ELSE late
          /\ taken' = taken \cup {<< hidx, cur, t[1], t[2] >> : t \in r.taken}
          /\ last' = Some([h |-> hidx, cur |-> cur, pos |-> pos, matrix |-> matrix,
                           baggages |-> handler.baggages, time |-> time,
                           prev_flight |-> prev_flight, missing |-> r.missing])
          /\ IF ~IsNone(r.error)
             THEN /\ pc' = "error"
                  /\ error' = r.error
                  /\ UNCHANGED << hidx, pos >>
             ELSE IF pos = Len(Val(handler.route))
             THEN /\ pc' = "run"
                  /\ hidx' = hidx + 1
                  /\ UNCHANGED << pos, error >>
             ELSE /\ pos' = pos + 1
                  /\ UNCHANGED << pc, hidx, error >>
    /\ UNCHANGED << schedule, initial_baggages, routes, result, fleet, gates, distance_matrix >>

\* AirportSim.compute_missing_bags, called after run_routes has returned
ComputeMissingBags ==
    /\ pc = "run"
    /\ hidx > Len(handlers)
    /\ LET r == compute_missing_bags(matrix, handlers, initial_baggages)
       IN /\ result' = Some(r)
          /\ error' = r.error
          /\ pc' = IF IsNone(r.error) THEN "done" ELSE "error"
    /\ last' = None
    /\ UNCHANGED << schedule, handlers, matrix, initial_baggages, routes, hidx, pos,
                    time, prev_flight, delivered, late, taken, fleet,
                    gates, distance_matrix >>

Next == Solve \/ update_routes \/ StartHandler \/ Stop \/ ComputeMissingBags

Spec == Init /\ [][Next]_vars

\* ---- quantities the properties are about ----
LedgerTotal == MatrixLen(matrix)

HeldCount(handler) == IF IsNone(handler.baggages) THEN 0 ELSE SumValues(Val(handler.baggages))

RECURSIVE HeldUpTo(_, _)
HeldUpTo(hs, n) == IF n = 0 THEN 0 ELSE HeldUpTo(hs, n - 1) + HeldCount(hs[n])
HeldTotal == HeldUpTo(handlers, Len(handlers))

Outstanding == LedgerTotal + HeldTotal

\* the stop that has just been made, if any
Stopped == ~IsNone(last)
LastHandler == handlers[Val(last).h]
LastFlight == Val(ScheduleGet(schedule, Val(last).cur))
LastRoute == Val(LastHandler.route)
PickupStop == Stopped /\ ~IsNone(LastFlight.baggages)
DeliveryStop == Stopped /\ IsNone(LastFlight.baggages)

C2_PickupSettlesOneEntry ==
    (PickupStop /\ pc # "error") =>
        \A o \in DOMAIN Val(last).matrix : \A d \in DOMAIN Val(last).matrix[o] :
            (o # Val(last).cur \/ d \notin SeqElems(LastRoute)) =>
                /\ o \in DOMAIN matrix
                /\ d \in DOMAIN matrix[o]
                /\ matrix[o][d] = Val(last).matrix[o][d]

\* C3: the ratio is 0 only if every bag of the initial ledger was delivered on
\* time; every bag not delivered on time is counted in the numerator.
C3_ZeroMeansAllDelivered ==
    pc = "done" =>
        /\ Val(result).num = 0 => delivered = initial_baggages
        /\ Val(result).num >= initial_baggages - delivered

\* C4: with handlers that start empty and a positive initial total, ledger
\* total plus held bags stays within 0..initial total and the ratio within [0, 1].
C4_RatioInUnitInterval ==
    initial_baggages > 0 =>
        /\ 0 <= Outstanding
        /\ Outstanding <= initial_baggages
        /\ pc = "done" => (0 <= Val(result).num /\ Val(result).num <= Val(result).den)

\* a completed run whose ratio is strictly between 0 and 1
C4_Witness ==
    /\ pc = "done"
    /\ 0 < Val(result).num
    /\ Val(result).num < Val(result).den

\* C5: at a stop on a flight without outbound obligations the held entry for
\* the flight is removed exactly when the arrival clock is strictly before the
\* actual time; otherwise the mapping is unchanged, and an entry found late
\* stays held and is in the numerator of the ratio.
C5_DeliveryIffBefore ==
    /\ (DeliveryStop /\ ~IsNone(Val(last).baggages) /\ Val(last).cur \in DOMAIN Val(Val(last).baggages)) =>
          /\ pc # "error"
          /\ (Val(time) < LastFlight.actual) <=> (Val(last).cur \notin DOMAIN Val(LastHandler.baggages))
          /\ (Val(time) >= LastFlight.actual) => (LastHandler.baggages = Val(last).baggages)
    /\ \A e \in late :
          /\ e[2] \in DOMAIN Val(handlers[e[1]].baggages)
          /\ pc = "done" => Val(result).num >= Val(handlers[e[1]].baggages)[e[2]]

\* a handler holding bags for the flight arrived exactly at the actual time
C5_Witness ==
    /\ DeliveryStop
    /\ ~IsNone(Val(last).baggages)
    /\ Val(last).cur \in DOMAIN Val(Val(last).baggages)
    /\ Val(time) = LastFlight.actual
    /\ << Val(last).h, Val(last).cur >> \in late

\* C6: a stop strictly before the actual time on a flight without outbound
\* obligations, by a handler holding nothing for it, raises nothing and
\* changes neither the ledger nor the held bags.
C6_RemovalOfAbsentEntryIsNoOp ==
    (/\ DeliveryStop
     /\ Val(time) < LastFlight.actual
     /\ (IsNone(Val(last).baggages) \/ Val(last).cur \notin DOMAIN Val(Val(last).baggages))) =>
        /\ pc # "error"
        /\ matrix = Val(last).matrix
        /\ LastHandler.baggages = Val(last).baggages

\* C7: run_routes does not fail at a handler whose route is None.
C7_IdleHandlerIsSkipped ==
    ~(/\ pc = "error"
      /\ ~IsNone(routes)
      /\ hidx <= Len(handlers)
      /\ IsNone(handlers[hidx].route))

\* C8: solve returns, for every fleet, a dict whose keys are the handlers'
\* names, one of them with a route and the others None.
C8_SolveCoversTheFleet ==
    /\ ~(pc = "error" /\ IsNone(routes))
    /\ pc = "solved" =>
          /\ DOMAIN Val(routes) = {handlers[i].name : i \in 1..Len(handlers)}
          /\ Cardinality({k \in DOMAIN Val(routes) : ~IsNone(Val(routes)[k])}) = 1

\* C9: the route solve returns is the schedule's flight numbers, one per
\* flight, by ascending actual time, equal times in schedule order.
C9_RouteIsStableSortByActual ==
    pc = "solved" =>
        \A k \in DOMAIN Val(routes) : ~IsNone(Val(routes)[k]) =>
            LET r == Val(Val(routes)[k])
                n == Len(schedule)
            IN /\ Len(r) = n
               /\ \E p \in [1..n -> 1..n] :
                     /\ \A i, j \in 1..n : i # j => p[i] # p[j]
                     /\ \A i \in 1..n : r[i] = schedule[p[i]].number
                     /\ \A i, j \in 1..n : i < j =>
                           \/ schedule[p[i]].actual < schedule[p[j]].actual
                           \/ /\ schedule[p[i]].actual = schedule[p[j]].actual
                              /\ p[i] < p[j]

\* solve returned a route for a schedule that is out of order and has a tie
C9_Witness ==
    /\ pc = "solved"
    /\ schedule[1].actual > schedule[2].actual
    /\ schedule[2].actual = schedule[3].actual
    /\ \E k \in DOMAIN Val(routes) : ~IsNone(Val(routes)[k])

\* ---- replay in another order of the fleet ----
Orders == {o \in [1..Len(handlers) -> 1..Len(handlers)] : \A i, j \in 1..Len(handlers) : i # j => o[i] # o[j]}
Identity == [i \in 1..Len(handlers) |-> i]

\* the handlers as constructed, with the routes that were installed
Routed == [i \in 1..Len(handlers) |-> [fleet[i] EXCEPT !.route = handlers[i].route]]

Replay(order) == run_routes(schedule, fill_matrix(schedule), Routed, order, 1)

\* the outstanding entries of a ledger
Entries(m) == UNION {{<< o, d, m[o][d] >> : d \in DOMAIN m[o]} : o \in DOMAIN m}

HeldMap(handler) == IF IsNone(handler.baggages) THEN EmptyDict ELSE Val(handler.baggages)

Claims(handler, o, d) ==
    /\ ~IsNone(handler.route)
    /\ o \in SeqElems(Val(handler.route))
    /\ d \in SeqElems(Val(handler.route))

\* no two handlers would claim the same ledger entry
NoContention ==
    \A i, j \in 1..Len(handlers) : i # j =>
        \A o \in DOMAIN fill_matrix(schedule) : \A d \in DOMAIN fill_matrix(schedule)[o] :
            ~(Claims(handlers[i], o, d) /\ Claims(handlers[j], o, d))

RunCompleted == pc \in {"run", "done"} /\ hidx > Len(handlers)

\* the stepwise run agrees with run_routes in the order of the fleet
ReplayIsRun ==
    RunCompleted =>
        /\ IsNone(Replay(Identity).error)
        /\ Replay(Identity).matrix = matrix
        /\ Replay(Identity).handlers = handlers

\* C10: with no two handlers claiming the same ledger entry, every order of the
\* fleet in which the replay completes ends with the same outstanding ledger
\* entries, the same held bags of every handler and the same ratio.
C10_OrderIndependent ==
    (RunCompleted /\ NoContention) =>
        \A order \in Orders :
            LET other == Replay(order)
            IN IsNone(other.error) =>
                  /\ Entries(other.matrix) = Entries(matrix)
                  /\ \A i \in 1..Len(handlers) : HeldMap(other.handlers[i]) = HeldMap(handlers[i])
                  /\ compute_missing_bags(other.matrix, other.handlers, initial_baggages)
                       = compute_missing_bags(matrix, handlers, initial_baggages)

\* ---- a single handler on a route of two flights ----
\* one handler whose route is the origin A and then the destination B, A
\* carrying bags for B only, and no other flight carrying any bags
OneLeg(A, B) ==
    /\ Len(handlers) = 1
    /\ handlers[1].route = Some(<< A.number, B.number >>)
    /\ A.number # B.number
    /\ ~IsNone(A.baggages)
    /\ DOMAIN Val(A.baggages) = {B.number}
    /\ \A i \in 1..Len(schedule) : schedule[i] # A => IsNone(schedule[i].baggages)

\* leaving A after the unloading and driving to B's gate
OneLegArrival(A, B) ==
    A.actual + fleet[1].unload_time
        + (GateDistance(gates[Val(get_gate_idx(A.gate_number))], gates[Val(get_gate_idx(B.gate_number))]) * 60)
            \div fleet[1].speed

\* C11: one handler on the route [A, B], A carrying bags for B only and B none:
\* the run completes, and the ratio is 0 when actual(A) + unload_time +
\* distance(A, B) / speed is before actual(B), and 1 otherwise.
C11_OneLegRatio ==
    \A i, j \in 1..Len(schedule) :
        OneLeg(schedule[i], schedule[j]) =>
            /\ pc # "error"
            /\ pc = "done" =>
                  /\ Val(result).den > 0
                  /\ Val(result).num = IF OneLegArrival(schedule[i], schedule[j]) < schedule[j].actual
                                       THEN 0 ELSE Val(result).den

\* the connection is made: ratio 0
C11_Witness ==
    \E i, j \in 1..Len(schedule) :
        /\ OneLeg(schedule[i], schedule[j])
        /\ pc = "done"
        /\ OneLegArrival(schedule[i], schedule[j]) < schedule[j].actual
        /\ Val(result).num = 0
        /\ delivered = initial_baggages

\* the connection is missed: ratio 1
C11_WitnessMissed ==
    \E i, j \in 1..Len(schedule) :
        /\ OneLeg(schedule[i], schedule[j])
        /\ pc = "done"
        /\ OneLegArrival(schedule[i], schedule[j]) >= schedule[j].actual
        /\ Val(result).num = Val(result).den

\* ---- a routes dict without an entry for some handler ----
MissingRouteEntry ==
    /\ ~IsNone(routes)
    /\ \E i \in 1..Len(handlers) : handlers[i].name \notin DOMAIN Val(routes)

\* C12: when the dict given to update_routes has no entry for some handler, the
\* error is raised before the replay begins: no stop of any handler is
\* processed, and the ledger and the held bags are as constructed.
C12_MissingEntryFailsBeforeReplay ==
    MissingRouteEntry =>
        /\ ~Stopped
        /\ pc \notin {"stop", "done"}
        /\ matrix = fill_matrix(schedule)
        /\ \A i \in 1..Len(handlers) : handlers[i].baggages = fleet[i].baggages

\* ---- settling an entry the ledger no longer has ----
\* the latest stop called remove_entry for an origin whose row was gone
SettledAbsentEntry == Stopped /\ Val(last).missing > 0

\* C13: settling a ledger entry that is not outstanding (a second settlement of
\* the same origin within one pickup stop) fails with an error instead of
\* succeeding silently.
C13_SettlingAbsentEntryFails ==
    SettledAbsentEntry => (pc = "error" /\ ~IsNone(error))

\* ---- the ratio of a schedule without bags ----
\* C14: when the ledger total recorded at construction is zero,
\* compute_missing_bags reports an explicit "no data" outcome: it neither
\* raises a division fault nor returns a number.
C14_NoDataWhenInitialTotalIsZero ==
    (initial_baggages = 0 /\ ~IsNone(result)) =>
        /\ Val(result).error # Some("ZeroDivisionError")
        /\ pc # "done"

\* ---- Airport over drawn gate lists ----
Coordinates == 0..MaxCoord
GateNumbers == << "1", "2" >>
GateCounts == {1, 2}

\* the gate lists an Airport can be constructed with
GateLists ==
    UNION {{[i \in 1..n |-> [number |-> GateNumbers[i], x |-> xs[i], y |-> ys[i]]] :
               xs \in [1..n -> Coordinates], ys \in [1..n -> Coordinates]} : n \in GateCounts}

\* the arguments of Airport(gates); no simulation is built
AirportInit ==
    /\ gates \in GateLists
    /\ distance_matrix = << >>
    /\ pc = "airport"
    /\ schedule = << >>
    /\ handlers = << >>
    /\ matrix = EmptyDict
    /\ initial_baggages = 0
    /\ routes = None
    /\ hidx = 1
    /\ pos = 1
    /\ time = None
    /\ prev_flight = None
    /\ error = None
    /\ result = None
    /\ delivered = 0
    /\ late = {}
    /\ taken = {}
    /\ last = None
    /\ fleet = << >>

\* Airport.__init__: self.distance_matrix = self.compute_distance_matrix()
BuildAirport ==
    /\ pc = "airport"
    /\ distance_matrix' = compute_distance_matrix
    /\ pc' = "airport_built"
    /\ UNCHANGED << schedule, handlers, matrix, initial_baggages, routes, hidx, pos, time,
                    prev_flight, error, result, delivered, late, taken, last, fleet, gates >>

AirportNext == BuildAirport

SpecAirport == AirportInit /\ [][AirportNext]_vars

\* C15: distances are symmetric with a zero diagonal, for the points and the
\* gates of every gate list and for the distance matrix the Airport builds
\* from it (and reads through get_distance).
C15_DistanceSymmetry ==
    /\ \A i, j \in 1..Len(gates) :
          /\ PointDistance(gates[i], gates[j]) = PointDistance(gates[j], gates[i])
          /\ GateDistance(gates[i], gates[j]) = GateDistance(gates[j], gates[i])
          /\ PointDistance(gates[i], gates[i]) = 0
          /\ GateDistance(gates[i], gates[i]) = 0
    /\ pc = "airport_built" =>
          /\ Len(distance_matrix) = Len(gates)
          /\ \A i, j \in 1..Len(gates) :
                /\ distance_matrix[i][j] = distance_matrix[j][i]
                /\ distance_matrix[i][i] = 0
                /\ get_distance(gates[i].number, gates[j].number)
                     = get_distance(gates[j].number, gates[i].number)

\* a matrix was built for two gates 5 units apart
C15_Witness ==
    /\ pc = "airport_built"
    /\ Len(gates) = 2
    /\ distance_matrix[1][2] = 5
    /\ distance_matrix[2][1] = 5

\* ---- the bags before and after the latest stop ----
BagsOf(dict, key) == IF key \in DOMAIN dict THEN dict[key] ELSE 0
HeldBefore == HeldMap([baggages |-> Val(last).baggages])
HeldNow == HeldMap(LastHandler)
\* the outstanding entries of the flight when the handler stopped there
LastSnapshot == MatrixGet(Val(last).matrix, Val(last).cur)
\* the flights at the route positions after, and before, the latest stop
LaterStops == {LastRoute[k] : k \in (Val(last).pos + 1)..Len(LastRoute)}
EarlierStops == {LastRoute[k] : k \in 1..(Val(last).pos - 1)}

\* C16: at a pickup stop at position i of the route the handler takes only the
\* entries whose destination appears at a later position; the entries whose
\* destination appears only at an earlier position stay in the ledger.
C16_PickupTakesLaterDestinationsOnly ==
    (PickupStop /\ pc # "error") =>
        \A dest \in DOMAIN LastSnapshot :
            dest \notin LaterStops =>
                /\ BagsOf(HeldNow, dest) = BagsOf(HeldBefore, dest)
                /\ dest \in EarlierStops =>
                      BagsOf(MatrixGet(matrix, Val(last).cur), dest) = LastSnapshot[dest]

\* ---- the clock of a handler ----
Max(a, b) == IF a >= b THEN a ELSE b

\* the clock on arrival at the latest stop: the actual time of the flight at
\* the first stop of the route, the clock of the previous stop plus the travel
\* time at a later one
LastArrival ==
    IF Val(last).pos = 1 THEN LastFlight.actual
    ELSE Val(Val(last).time)
           + (GateDistance(gates[Val(get_gate_idx(Val(Val(last).prev_flight).gate_number))],
                           gates[Val(get_gate_idx(LastFlight.gate_number))]) * 60)
               \div LastHandler.speed

\* C17: the clock of a handler starts at the actual time of its first stop and
\* advances at each later stop by distance / speed; after a pickup stop it is
\* max(arrival, actual time) + unload_time; it never decreases along a route.
C17_ClockAdvance ==
    (Stopped /\ pc # "error") =>
        /\ DeliveryStop => Val(time) = LastArrival
        /\ PickupStop => Val(time) = Max(LastArrival, LastFlight.actual) + LastHandler.unload_time
        /\ Val(last).pos = 1 => IsNone(Val(last).time)
        /\ Val(last).pos > 1 => (~IsNone(Val(last).time) /\ Val(time) >= Val(Val(last).time))

\* a pickup stop the handler reached before the flight's actual time, so that
\* the loading began at the actual time
C17_Witness ==
    /\ PickupStop
    /\ pc # "error"
    /\ Val(last).pos > 1
    /\ LastArrival < LastFlight.actual
    /\ LastArrival > Val(Val(last).time)
    /\ Val(time) = LastFlight.actual + LastHandler.unload_time

\* ---- contention: fleets of three handlers ----
\* AirportSim.__init__ with a list of one or of three handlers (baggages={}),
\* all flights at the same actual time
ContentionFleetSizes == {1, 3}

ContentionInit ==
    /\ schedule \in {s \in Schedules : \A i \in 1..Len(s) : s[i].actual = 0}
    /\ handlers \in {Fleet(n, Some(EmptyDict)) : n \in ContentionFleetSizes}
    /\ matrix = fill_matrix(schedule)
    /\ initial_baggages = MatrixLen(fill_matrix(schedule))
    /\ routes = None
    /\ pc = "constructed"
    /\ hidx = 1
    /\ pos = 1
    /\ time = None
    /\ prev_flight = None
    /\ error = None
    /\ result = None
    /\ delivered = 0
    /\ late = {}
    /\ taken = {}
    /\ last = None
    /\ fleet = handlers
    /\ gates = Gates
    /\ distance_matrix = compute_distance_matrix

SpecContention == ContentionInit /\ [][Next]_vars

\* the handlers whose route holds both the origin and the destination
Claimers(o, d) == {i \in 1..Len(handlers) : Claims(handlers[i], o, d)}

\* the claimer whose stops are processed first
FirstClaimer(o, d) == CHOOSE i \in Claimers(o, d) : \A j \in Claimers(o, d) : i <= j

\* the replay of handler i has completed
Replayed(i) == pc \in {"run", "stop", "done"} /\ hidx > i

\* C18: when the routes of two handlers both claim the same ledger entry, the
\* handler whose pickup stop is processed first receives the full count of the
\* entry and the other none of it; no entry is ever taken twice, nor for more
\* than its initial count.
C18_FirstPickupWinsTheEntry ==
    \A o \in DOMAIN fill_matrix(schedule) : \A d \in DOMAIN fill_matrix(schedule)[o] :
        /\ \A t, u \in taken :
              (t[2] = o /\ t[3] = d /\ u[2] = o /\ u[3] = d) =>
                  (t = u /\ t[4] = fill_matrix(schedule)[o][d])
        /\ (Cardinality(Claimers(o, d)) >= 2 /\ Replayed(FirstClaimer(o, d))) =>
              /\ << FirstClaimer(o, d), o, d, fill_matrix(schedule)[o][d] >> \in taken
              /\ BagsOf(HeldMap(handlers[FirstClaimer(o, d)]), d) + delivered
                    >= fill_matrix(schedule)[o][d]

\* ---- handlers that made no pickup ----
MadeNoPickup(i) == \A t \in taken : t[1] # i

\* C19: the held bags of a handler start empty, so with a handler that made no
\* pickup during the replay compute_missing_bags completes without an error and
\* returns (ledger total + the other handlers' held bags) / initial total.
C19_HandlerWithoutPickupHoldsZero ==
    (~IsNone(result) /\ initial_baggages > 0 /\ \E i \in 1..Len(handlers) : MadeNoPickup(i)) =>
        /\ pc = "done"
        /\ IsNone(Val(result).error)
        /\ Val(result).num = LedgerTotal + HeldTotal
        /\ Val(result).den = initial_baggages

\* ---- bags held for a flight that has outbound obligations ----
HasObligations(flight_number) ==
    /\ ~IsNone(ScheduleGet(schedule, flight_number))
    /\ ~IsNone(Val(ScheduleGet(schedule, flight_number)).baggages)

RECURSIVE ObligedHeldUpTo(_, _)
ObligedHeldUpTo(hs, n) ==
    IF n = 0 THEN 0
    ELSE ObligedHeldUpTo(hs, n - 1)
           + SumOver([d \in {x \in DOMAIN HeldMap(hs[n]) : HasObligations(x)} |-> HeldMap(hs[n])[d]],
                     {x \in DOMAIN HeldMap(hs[n]) : HasObligations(x)})

\* one step keeps, for every handler, the bags held for every flight that has
\* outbound obligations
KeepsObligedBags ==
    \A i \in 1..Len(handlers) : \A d \in DOMAIN HeldMap(handlers[i]) :
        HasObligations(d) =>
            BagsOf(HeldMap(handlers'[i]), d) >= HeldMap(handlers[i])[d]

\* C20: a stop at a flight that has outbound obligations never delivers: the
\* bags a handler holds for such a flight stay in its held bags for the rest of
\* the run, whatever the arrival time, and are counted in the numerator.
C20_NoDeliveryAtFlightWithObligations ==
    [][/\ KeepsObligedBags
       /\ (pc' = "done" => Val(result').num >= ObligedHeldUpTo(handlers', Len(handlers')))]_vars

\* a handler stopped, before the actual time, at a flight with outbound
\* obligations for which it held bags, and holds them still
C20_Witness ==
    /\ PickupStop
    /\ pc # "error"
    /\ Val(last).cur \in DOMAIN HeldBefore
    /\ LastArrival < LastFlight.actual
    /\ BagsOf(HeldNow, Val(last).cur) = HeldBefore[Val(last).cur]

====
